---- MODULE Spec2Model ----
(***************************************************************************)
(* Model of the drafting pipeline of main.py: the /chat handler, the style *)
(* resolver, the intent normaliser, the structured output extractor and    *)
(* the offline fallback generator.                                         *)
(*                                                                         *)
(* A Python str is a sequence of one-character strings, so that strip,     *)
(* lower, startswith, substring containment and the regular expressions    *)
(* are computed character by character.  EMDASH stands for U+2014.         *)
(*                                                                         *)
(* An operator that reads an argument several times first binds it to a    *)
(* value, as  \E s \in {str} : ...  or  The({... : s \in {str}}),  so that  *)
(* the argument is evaluated once.                                         *)
(***************************************************************************)
EXTENDS Integers, Sequences, FiniteSets, TLC

VARIABLES pc, req, apiKey, useMock, userText, calls, backend, extracted, resp

vars == <<pc, req, apiKey, useMock, userText, calls, backend, extracted, resp>>

\* ------------------------------------------------------------------ str

\* The element of a one-element set.
The(S) == CHOOSE x \in S : TRUE

Max(S) == CHOOSE x \in S : \A y \in S : y <= x

Min(S) == CHOOSE x \in S : \A y \in S : x <= y

\* U+2014, one character of the fallback texts.
EMDASH == "<U+2014>"

\* Python's None where a str is optional: a value no str equals.
None == <<"<None>">>

\* Characters str.strip() and the regex class \s remove (the ASCII ones).
Whitespace == {" ", "\t", "\n", "\r"}

UpperChars == <<"A","B","C","D","E","F","G","H","I","J","K","L","M","N","O","P","Q","R","S","T","U","V","W","X","Y","Z">>

LowerChars == <<"a","b","c","d","e","f","g","h","i","j","k","l","m","n","o","p","q","r","s","t","u","v","w","x","y","z">>

Digits == <<"0","1","2","3","4","5","6","7","8","9">>

Range(f) == {f[i] : i \in DOMAIN f}

\* The regex class \w.
WordChars == Range(UpperChars) \cup Range(LowerChars) \cup Range(Digits) \cup {"_"}

LowerChar(c) ==
  IF \E i \in 1..26 : UpperChars[i] = c
    THEN LowerChars[CHOOSE i \in 1..26 : UpperChars[i] = c]
    ELSE c

\* str.lower()
Lower(str) == The({[i \in 1..Len(s) |-> LowerChar(s[i])] : s \in {str}})

\* The first and the last position of s whose character is not in cs (Len(s) + 1
\* and 0 without one).
FirstOutside(s, cs) ==
  IF \A i \in 1..Len(s) : s[i] \in cs THEN Len(s) + 1
  ELSE Min({i \in 1..Len(s) : s[i] \notin cs})

LastOutside(s, cs) ==
  IF \A i \in 1..Len(s) : s[i] \in cs THEN 0
  ELSE Max({i \in 1..Len(s) : s[i] \notin cs})

\* str.lstrip(chars) and str.rstrip(chars)
LStripChars(str, cs) == The({SubSeq(s, FirstOutside(s, cs), Len(s)) : s \in {str}})

RStripChars(str, cs) == The({SubSeq(s, 1, LastOutside(s, cs)) : s \in {str}})

\* str.strip()
Strip(str) == RStripChars(LStripChars(str, Whitespace), Whitespace)

\* str.startswith(p)
StartsWith(str, prefix) ==
  \E s \in {str}, p \in {prefix} : Len(p) <= Len(s) /\ SubSeq(s, 1, Len(p)) = p

\* str.startswith((p1, p2, ...))
StartsWithAny(str, ps) == \E s \in {str} : \E p \in ps : StartsWith(s, p)

\* p in s
Contains(str, sub) ==
  \E s \in {str}, p \in {sub} : \E i \in 1..(Len(s) - Len(p) + 1) : SubSeq(s, i, i + Len(p) - 1) = p

\* x or d, for an optional str x
OrElse(opt, d) == The({IF x = None \/ x = <<>> THEN d ELSE x : x \in {opt}})

\* len(s.split()): the number of maximal runs of non-whitespace characters.
TokenCount(str) ==
  The({Cardinality({i \in 1..Len(s) : s[i] \notin Whitespace /\ (i = 1 \/ s[i - 1] \in Whitespace)}) : s \in {str}})

\* "".join(pieces[lo..hi]), halving the range.
RECURSIVE Join(_, _, _)
Join(pieces, lo, hi) ==
  IF lo > hi THEN <<>>
  ELSE IF lo = hi THEN pieces[lo]
  ELSE Join(pieces, lo, (lo + hi) \div 2) \o Join(pieces, ((lo + hi) \div 2) + 1, hi)

\* str.replace(old, new) for an old that cannot overlap itself (each of the three
\* the code replaces is a backslash and another character): every occurrence is
\* replaced.
ReplaceIn(s, old, new) ==
  IF \A i \in 1..(Len(s) - Len(old) + 1) : SubSeq(s, i, i + Len(old) - 1) # old THEN s
  ELSE Join([p \in 1..Len(s) |->
               IF p + Len(old) - 1 <= Len(s) /\ SubSeq(s, p, p + Len(old) - 1) = old THEN new
               ELSE IF \E i \in 1..(p - 1) : p < i + Len(old) /\ SubSeq(s, i, i + Len(old) - 1) = old THEN <<>>
               ELSE <<s[p]>>],
            1, Len(s))

Replace(str, old, new) == The({ReplaceIn(s, old, new) : s \in {str}})

\* ------------------------------------------------------- style resolver

scenario_label(scenario) ==
  The({IF Contains(s, <<"p","r","o","f","e","s","s","o","r">>) THEN "talking to a professor"
       ELSE IF Contains(s, <<"f","r","i","e","n","d">>) THEN "messaging a friend"
       ELSE IF Contains(s, <<"s","t","r","a","n","g","e","r">>) THEN "replying to a stranger"
       ELSE "general" : s \in {Lower(Strip(OrElse(scenario, <<"g","e","n","e","r","a","l">>)))}})

tone_label(tone) ==
  The({IF Contains(t, <<"f","r","i","e","n","d","l","y">>) THEN "Friendly"
       ELSE IF Contains(t, <<"p","o","l","i","t","e">>) THEN "Polite"
       ELSE IF Contains(t, <<"d","i","r","e","c","t">>) THEN "Direct"
       ELSE "Calm" : t \in {Lower(Strip(OrElse(tone, <<"C","a","l","m">>)))}})

\* A greeting table that knows the professor only: a variant of Greet that C7
\* tells from it.
GreetFormal(sc) == IF sc = "talking to a professor" THEN <<"H","e","l","l","o"," ","P","r","o","f","e","s","s","o","r",","," ">> ELSE <<"H","e","l","l","o",","," ">>

\* greeting by scenario (make_fallback_drafts)
Greet(sc) ==
  IF sc = "talking to a professor" THEN <<"H","e","l","l","o"," ","P","r","o","f","e","s","s","o","r",","," ">>
  ELSE IF sc = "replying to a stranger" THEN <<"H","i",","," ">>
  ELSE IF sc = "messaging a friend" THEN <<"H","e","y",","," ">>
  ELSE <<"H","i",","," ">>

\* tone tweaks (make_fallback_drafts)
Please(tl) == IF tl = "Polite" THEN <<" ","p","l","e","a","s","e">> ELSE <<>>

Soften(tl) ==
  IF tl = "Direct" THEN <<>>
  ELSE IF tl = "Polite" THEN <<" ","T","h","a","n","k"," ","y","o","u","!">>
  ELSE IF tl = "Friendly" THEN <<" ","T","h","a","n","k","s","!">>
  ELSE <<>>

\* --------------------------------- re: \bask\b.*\babout\b\s+(.+)$  (IGNORECASE)

\* \b at the gap before position i (1..Len(s)+1).
WordBoundary(s, i) ==
  ((i > 1) /\ (s[i - 1] \in WordChars)) # ((i <= Len(s)) /\ (s[i] \in WordChars))

\* The literal p (lower case) at position i, case-insensitively, as a whole word.
WordAt(s, i, p) ==
  /\ i + Len(p) - 1 <= Len(s)
  /\ Lower(SubSeq(s, i, i + Len(p) - 1)) = p
  /\ WordBoundary(s, i)
  /\ WordBoundary(s, i + Len(p))

NoNewline(str) == \E s \in {str} : \A k \in 1..Len(s) : s[k] # "\n"

\* (.+)$ on the rest: '.' takes no newline, '$' is the end or the gap before a
\* final newline.  <<>> when it does not match.
DotPlusToEnd(rest) ==
  The({IF r # <<>> /\ NoNewline(r) THEN r
       ELSE IF Len(r) >= 2 /\ r[Len(r)] = "\n" /\ NoNewline(SubSeq(r, 1, Len(r) - 1))
         THEN SubSeq(r, 1, Len(r) - 1)
       ELSE <<>> : r \in {rest}})

\* The numbers k of whitespace characters \s+ may take after "about" at j for the
\* rest to match (.+)$.
AboutTails(s, j) ==
  {k \in 1..(Len(s) - (j + 4)) :
     /\ \A q \in (j + 5)..(j + 4 + k) : s[q] \in Whitespace
     /\ DotPlusToEnd(SubSeq(s, j + 5 + k, Len(s))) # <<>>}

\* The positions of "about" a match starting with "ask" at i may use.
AboutsAfter(s, i) ==
  {j \in (i + 3)..Len(s) :
     /\ WordAt(s, j, <<"a","b","o","u","t">>)
     /\ NoNewline(SubSeq(s, i + 3, j - 1))
     /\ AboutTails(s, j) # {}}

\* The positions of "ask" a match can start at.
AskStarts(s) == {i \in 1..Len(s) : WordAt(s, i, <<"a","s","k">>) /\ AboutsAfter(s, i) # {}}

\* Group 1 when "about" is at j: '\s+' takes all the whitespace it can.
GroupAfterAbout(s, j) ==
  The({DotPlusToEnd(SubSeq(s, j + 5 + k, Len(s))) : k \in {Max(AboutTails(s, j))}})

\* Group 1 when the match starts at i: '.*' reaches the last "about" it can.
GroupAfterAsk(s, i) == The({GroupAfterAbout(s, j) : j \in {Max(AboutsAfter(s, i))}})

\* re.search(r"\bask\b.*\babout\b\s+(.+)$", s, flags=re.IGNORECASE): group 1 of
\* the leftmost match; None when there is no match.
AskAboutGroup(str) ==
  The({The({IF starts = {} THEN None ELSE The({GroupAfterAsk(s, i) : i \in {Min(starts)}})
            : starts \in {AskStarts(s)}}) : s \in {str}})

\* topic = m.group(1).strip().rstrip(".!?")
Topic(group) == RStripChars(Strip(group), {".", "!", "?"})

\* ---------------------------------------------------- fallback generator

\* The if-chain in the normalizer's order, "ask ... about" first: a variant of
\* FallbackBranch that C10 tells from it.
FallbackBranchAskAboutFirst(intent) ==
  The({IF AskAboutGroup(intent) # None THEN "ask_about"
       ELSE IF StartsWithAny(it, {<<"f","o","l","l","o","w"," ","u","p">>, <<"f","o","l","l","o","w","-","u","p">>, <<"f","o","l","l","o","w","u","p">>}) THEN "follow_up"
       ELSE IF StartsWithAny(it, {<<"s","a","y"," ","n","o">>, <<"d","e","c","l","i","n","e">>, <<"t","u","r","n"," ","d","o","w","n">>}) THEN "decline"
       ELSE IF StartsWithAny(it, {<<"a","p","o","l","o","g","i","s","e">>, <<"a","p","o","l","o","g","i","z","e">>, <<"c","l","a","r","i","f","y">>}) THEN "apologize"
       ELSE IF StartsWithAny(it, {<<"s","t","a","r","t"," ","f","r","i","e","n","d","l","y">>}) THEN "start_friendly"
       ELSE IF StartsWith(it, <<"a","s","k">>) THEN "ask"
       ELSE "default" : it \in {Lower(Strip(OrElse(intent, <<>>)))}})

\* The branch of make_fallback_drafts's if-chain that intent takes.
FallbackBranch(intent) ==
  The({IF StartsWithAny(it, {<<"f","o","l","l","o","w"," ","u","p">>, <<"f","o","l","l","o","w","-","u","p">>, <<"f","o","l","l","o","w","u","p">>}) THEN "follow_up"
       ELSE IF StartsWithAny(it, {<<"s","a","y"," ","n","o">>, <<"d","e","c","l","i","n","e">>, <<"t","u","r","n"," ","d","o","w","n">>}) THEN "decline"
       ELSE IF StartsWithAny(it, {<<"a","p","o","l","o","g","i","s","e">>, <<"a","p","o","l","o","g","i","z","e">>, <<"c","l","a","r","i","f","y">>}) THEN "apologize"
       ELSE IF StartsWithAny(it, {<<"s","t","a","r","t"," ","f","r","i","e","n","d","l","y">>}) THEN "start_friendly"
       ELSE IF AskAboutGroup(intent) # None THEN "ask_about"
       ELSE IF StartsWith(it, <<"a","s","k">>) THEN "ask"
       ELSE "default" : it \in {Lower(Strip(OrElse(intent, <<>>)))}})

FollowUpDrafts(greet, please, soften) ==
  [reply |-> Strip(greet \o <<"j","u","s","t"," ","f","o","l","l","o","w","i","n","g"," ","u","p"," ","o","n"," ","[","w","h","a","t"," ","I","'","m"," ","f","o","l","l","o","w","i","n","g"," ","u","p"," ","o","n","]","."," ","N","o"," ","r","u","s","h",EMDASH,"w","h","e","n","e","v","e","r"," ","y","o","u"," ","h","a","v","e"," ","a"," ","m","o","m","e","n","t",".">> \o soften),
   options |-> <<
     Strip(greet \o <<"q","u","i","c","k"," ","f","o","l","l","o","w","-","u","p"," ","o","n"," ","[","w","h","a","t"," ","I","'","m"," ","f","o","l","l","o","w","i","n","g"," ","u","p"," ","o","n","]","."," ","W","h","e","n","e","v","e","r"," ","y","o","u","'","r","e"," ","f","r","e","e"," ","i","s"," ","t","o","t","a","l","l","y"," ","f","i","n","e",".">> \o soften),
     Strip(greet \o <<"c","h","e","c","k","i","n","g"," ","i","n"," ","a","b","o","u","t"," ","[","w","h","a","t"," ","I","'","m"," ","f","o","l","l","o","w","i","n","g"," ","u","p"," ","o","n","]","."," ","L","e","t"," ","m","e"," ","k","n","o","w"," ","w","h","e","n"," ","y","o","u"," ","g","e","t"," ","a"," ","c","h","a","n","c","e",".">> \o soften),
     Strip(greet \o <<"j","u","s","t"," ","w","a","n","t","e","d"," ","t","o"," ","f","o","l","l","o","w"," ","u","p"," ","o","n"," ","[","w","h","a","t"," ","I","'","m"," ","f","o","l","l","o","w","i","n","g"," ","u","p"," ","o","n","]","."," ","T","h","a","n","k","s","!"," ">>) >>]

DeclineDrafts(greet, please, soften) ==
  [reply |-> Strip(greet \o <<"t","h","a","n","k","s"," ","f","o","r"," ","a","s","k","i","n","g",","," ","b","u","t"," ","I"," ","c","a","n","'","t"," ","[","r","e","q","u","e","s","t","]"," ","r","i","g","h","t"," ","n","o","w","."," ","C","o","u","l","d"," ","w","e"," ","d","o"," ","[","a","l","t","e","r","n","a","t","i","v","e","]"," ","i","n","s","t","e","a","d","?">> \o soften),
   options |-> <<
     Strip(greet \o <<"I"," ","r","e","a","l","l","y"," ","a","p","p","r","e","c","i","a","t","e"," ","i","t",","," ","b","u","t"," ","I"," ","w","o","n","'","t"," ","b","e"," ","a","b","l","e"," ","t","o"," ","[","r","e","q","u","e","s","t","]","."," ","M","a","y","b","e"," ","[","a","l","t","e","r","n","a","t","i","v","e","]","?">> \o soften),
     Strip(greet \o <<"I"," ","c","a","n","'","t"," ","c","o","m","m","i","t"," ","t","o"," ","[","r","e","q","u","e","s","t","]"," ","a","t"," ","t","h","e"," ","m","o","m","e","n","t","."," ","H","a","p","p","y"," ","t","o"," ","h","e","l","p"," ","w","i","t","h"," ","[","a","l","t","e","r","n","a","t","i","v","e","]",".">> \o soften),
     Strip(greet \o <<"t","h","a","n","k","s",EMDASH,"I","'","l","l"," ","h","a","v","e"," ","t","o"," ","p","a","s","s"," ","o","n"," ","[","r","e","q","u","e","s","t","]","."," ","H","o","p","e"," ","t","h","a","t","'","s"," ","o","k","a","y",".">> \o soften) >>]

ApologizeDrafts(greet, please, soften) ==
  [reply |-> Strip(greet \o <<"s","o","r","r","y",EMDASH,"c","o","u","l","d"," ","y","o","u"," ","c","l","a","r","i","f","y"," ","[","c","o","n","f","u","s","i","n","g"," ","p","a","r","t","]">> \o please \o <<"?">> \o soften),
   options |-> <<
     Strip(greet \o <<"s","o","r","r","y",","," ","I"," ","m","i","g","h","t"," ","h","a","v","e"," ","m","i","s","u","n","d","e","r","s","t","o","o","d","."," ","C","o","u","l","d"," ","y","o","u"," ","c","l","a","r","i","f","y"," ","[","c","o","n","f","u","s","i","n","g"," ","p","a","r","t","]">> \o please \o <<"?">> \o soften),
     Strip(greet \o <<"j","u","s","t"," ","t","o"," ","m","a","k","e"," ","s","u","r","e"," ","I","'","v","e"," ","g","o","t"," ","i","t"," ","r","i","g","h","t",EMDASH,"w","h","a","t"," ","d","i","d"," ","y","o","u"," ","m","e","a","n"," ","b","y"," ","[","c","o","n","f","u","s","i","n","g"," ","p","a","r","t","]","?">> \o soften),
     Strip(greet \o <<"c","o","u","l","d"," ","y","o","u"," ","c","l","a","r","i","f","y"," ","[","c","o","n","f","u","s","i","n","g"," ","p","a","r","t","]">> \o please \o <<"?">> \o soften) >>]

StartFriendlyDrafts(greet, please, soften) ==
  [reply |-> Strip(greet \o <<"h","o","p","e"," ","y","o","u","'","r","e"," ","d","o","i","n","g"," ","w","e","l","l","!"," ","A","b","o","u","t"," ","[","m","a","i","n"," ","p","o","i","n","t","]",EMDASH,"c","o","u","l","d"," ","y","o","u"," ","h","e","l","p"," ","m","e"," ","w","i","t","h"," ","[","d","e","t","a","i","l","s","]">> \o please \o <<"?">> \o soften),
   options |-> <<
     Strip(greet \o <<"h","o","p","e"," ","y","o","u","'","r","e"," ","h","a","v","i","n","g"," ","a"," ","g","o","o","d"," ","d","a","y","."," ","Q","u","i","c","k"," ","q","u","e","s","t","i","o","n"," ","a","b","o","u","t"," ","[","m","a","i","n"," ","p","o","i","n","t","]">> \o please \o <<".">> \o soften),
     Strip(greet \o <<"j","u","s","t"," ","w","a","n","t","e","d"," ","t","o"," ","r","e","a","c","h"," ","o","u","t"," ","a","b","o","u","t"," ","[","m","a","i","n"," ","p","o","i","n","t","]","."," ","C","o","u","l","d"," ","y","o","u"," ","s","h","a","r","e"," ","[","d","e","t","a","i","l","s","]">> \o please \o <<"?">> \o soften),
     Strip(greet \o <<"h","o","p","e"," ","a","l","l","'","s"," ","g","o","o","d","!"," ","C","a","n"," ","I"," ","a","s","k"," ","a","b","o","u","t"," ","[","m","a","i","n"," ","p","o","i","n","t","]">> \o please \o <<"?">> \o soften) >>]

AskAboutDrafts(topic, greet, please, soften) ==
  [reply |-> Strip(greet \o <<"I"," ","h","a","d"," ","a"," ","q","u","i","c","k"," ","q","u","e","s","t","i","o","n"," ","a","b","o","u","t"," ">> \o topic \o <<"."," ","C","o","u","l","d"," ","y","o","u"," ","c","l","a","r","i","f","y"," ","[","y","o","u","r"," ","q","u","e","s","t","i","o","n","]">> \o please \o <<"?">> \o soften),
   options |-> <<
     Strip(greet \o <<"c","o","u","l","d"," ","I"," ","a","s","k"," ","a","b","o","u","t"," ">> \o topic \o <<"?"," ","I","'","m"," ","u","n","s","u","r","e"," ","a","b","o","u","t"," ","[","y","o","u","r"," ","q","u","e","s","t","i","o","n","]",".">> \o soften),
     Strip(greet \o <<"q","u","i","c","k"," ","q","u","e","s","t","i","o","n"," ","a","b","o","u","t"," ">> \o topic \o <<":"," ","[","y","o","u","r"," ","q","u","e","s","t","i","o","n","]",".">> \o soften),
     Strip(greet \o <<"I"," ","w","a","s"," ","r","e","v","i","e","w","i","n","g"," ">> \o topic \o <<" ","a","n","d"," ","w","a","n","t","e","d"," ","t","o"," ","c","h","e","c","k"," ","[","y","o","u","r"," ","q","u","e","s","t","i","o","n","]">> \o please \o <<".">> \o soften) >>]

AskDrafts(greet, please, soften) ==
  [reply |-> Strip(greet \o <<"I"," ","h","a","d"," ","a"," ","q","u","i","c","k"," ","q","u","e","s","t","i","o","n",":"," ","[","y","o","u","r"," ","q","u","e","s","t","i","o","n","]",".">> \o soften),
   options |-> <<
     Strip(greet \o <<"q","u","i","c","k"," ","q","u","e","s","t","i","o","n",EMDASH,"[","y","o","u","r"," ","q","u","e","s","t","i","o","n","]",".">> \o soften),
     Strip(greet \o <<"c","o","u","l","d"," ","I"," ","a","s","k"," ","[","y","o","u","r"," ","q","u","e","s","t","i","o","n","]">> \o please \o <<"?">> \o soften),
     Strip(greet \o <<"j","u","s","t"," ","w","a","n","t","e","d"," ","t","o"," ","c","h","e","c","k",":"," ","[","y","o","u","r"," ","q","u","e","s","t","i","o","n","]",".">> \o soften) >>]

DefaultDrafts(greet, please, soften) ==
  [reply |-> Strip(greet \o <<"[","y","o","u","r"," ","m","e","s","s","a","g","e","]">> \o soften),
   options |-> <<
     Strip(greet \o <<"[","y","o","u","r"," ","m","e","s","s","a","g","e","]">> \o soften),
     Strip(greet \o <<"[","y","o","u","r"," ","m","e","s","s","a","g","e","]",".">> \o soften),
     Strip(greet \o <<"[","y","o","u","r"," ","m","e","s","s","a","g","e","]">> \o soften) >>]

\* options[:3]
FirstThree(seq) == The({SubSeq(s, 1, IF Len(s) < 3 THEN Len(s) ELSE 3) : s \in {seq}})

\* The drafts of the branch intent takes.
BranchDrafts(branch, intent, greet, please, soften) ==
  CASE branch = "follow_up" -> FollowUpDrafts(greet, please, soften)
    [] branch = "decline" -> DeclineDrafts(greet, please, soften)
    [] branch = "apologize" -> ApologizeDrafts(greet, please, soften)
    [] branch = "start_friendly" -> StartFriendlyDrafts(greet, please, soften)
    [] branch = "ask_about" -> The({AskAboutDrafts(topic, greet, please, soften) : topic \in {Topic(AskAboutGroup(intent))}})
    [] branch = "ask" -> AskDrafts(greet, please, soften)
    [] branch = "default" -> DefaultDrafts(greet, please, soften)

make_fallback_drafts(intent, scenario, tone) ==
  The({[reply |-> d.reply, options |-> FirstThree(d.options)] :
        d \in {BranchDrafts(branch, intent, greet, please, soften) :
                 branch \in {FallbackBranch(intent)},
                 greet \in {Greet(scenario_label(scenario))},
                 please \in {Please(tone_label(tone))},
                 soften \in {Soften(tone_label(tone))}}})

\* --------------------------------------------------- instruction builder

looks_like_prompt_instruction(message) ==
  \E m \in {Lower(Strip(OrElse(message, <<>>)))} :
     \/ StartsWithAny(m, {<<"w","r","i","t","e"," ","a"," ">>, <<"r","e","w","r","i","t","e"," ">>, <<"d","r","a","f","t"," ">>, <<"g","e","n","e","r","a","t","e"," ">>, <<"h","e","l","p"," ","m","e"," ">>,
                          <<"a","s","k"," ">>, <<"f","o","l","l","o","w"," ","u","p">>, <<"f","o","l","l","o","w","-","u","p">>, <<"f","o","l","l","o","w","u","p">>,
                          <<"s","a","y"," ","n","o">>, <<"d","e","c","l","i","n","e">>, <<"t","u","r","n"," ","d","o","w","n">>,
                          <<"a","p","o","l","o","g","i","s","e">>, <<"a","p","o","l","o","g","i","z","e">>,
                          <<"s","t","a","r","t"," ","f","r","i","e","n","d","l","y">>, <<"c","l","a","r","i","f","y">>,
                          <<"p","l","e","a","s","e"," ","w","r","i","t","e">>, <<"c","a","n"," ","y","o","u"," ","w","r","i","t","e">>})
     \/ TokenCount(m) <= 6

\* The branch of normalize_prompt_intent's ordered dispatch that message takes.
NormalizeBranch(message) ==
  The({IF AskAboutGroup(m) # None THEN "ask_about"
       ELSE IF StartsWithAny(Lower(m), {<<"f","o","l","l","o","w"," ","u","p">>, <<"f","o","l","l","o","w","-","u","p">>, <<"f","o","l","l","o","w","u","p">>}) THEN "follow_up"
       ELSE IF StartsWithAny(Lower(m), {<<"s","a","y"," ","n","o">>, <<"d","e","c","l","i","n","e">>, <<"t","u","r","n"," ","d","o","w","n">>}) THEN "decline"
       ELSE IF StartsWithAny(Lower(m), {<<"a","p","o","l","o","g","i","s","e">>, <<"a","p","o","l","o","g","i","z","e">>, <<"c","l","a","r","i","f","y">>}) THEN "apologize"
       ELSE IF StartsWith(Lower(m), <<"s","t","a","r","t"," ","f","r","i","e","n","d","l","y">>) THEN "start_friendly"
       ELSE "default" : m \in {Strip(OrElse(message, <<>>))}})

\* The instruction normalize_prompt_intent returns: its rule, and the topic the
\* ask-about rule puts into the text (the other rules' texts are constants).
normalize_prompt_intent(message, scenario, tone) ==
  The({[rule |-> branch,
        topic |-> IF branch = "ask_about" THEN Topic(AskAboutGroup(m)) ELSE <<>>] :
        m \in {Strip(OrElse(message, <<>>))}, branch \in {NormalizeBranch(message)}})

\* The user instruction build_user_content returns: which task text it is, and the
\* parts of the request that text contains.
build_user_content(message, mode, scenario, tone) ==
  The({IF mode = "chat"
         THEN IF looks_like_prompt_instruction(msg)
                THEN [task |-> "send_intention", normalized |-> normalize_prompt_intent(msg, scenario, tone), message |-> <<>>]
                ELSE [task |-> "reply_to_received", normalized |-> [rule |-> "none", topic |-> <<>>], message |-> msg]
       ELSE [task |-> IF mode = "rewrite_shorter" THEN "rewrite_shorter"
                      ELSE IF mode = "rewrite_politer" THEN "rewrite_politer"
                      ELSE IF mode = "rewrite_confident" THEN "rewrite_confident"
                      ELSE "rewrite_generic",
             normalized |-> [rule |-> "none", topic |-> <<>>],
             message |-> msg] : msg \in {Strip(OrElse(message, <<>>))}})

\* ------------------------------------------------------------ json.loads

\* Python values the handler meets: t is the type, v the value (a str's
\* characters, an int, a list's items, a dict's <<key, value>> pairs in the
\* order of the text).  None and the bools carry 0 / 1.
PyStr(chars) == [t |-> "str", v |-> chars]

PyInt(n) == [t |-> "int", v |-> n]

PyNone == [t |-> "none", v |-> 0]

PyBool(b) == [t |-> "bool", v |-> IF b THEN 1 ELSE 0]

PyList(items) == [t |-> "list", v |-> items]

PyDict(pairs) == [t |-> "dict", v |-> pairs]

\* A parse that failed (json.JSONDecodeError), and one that produced val and
\* stopped before position pos.
ParseFail == [ok |-> FALSE, val |-> PyNone, pos |-> 0]

ParseOk(val, pos) == [ok |-> TRUE, val |-> val, pos |-> pos]

\* The first position >= i that holds no JSON whitespace.
SkipWs(s, from) ==
  The({IF \A k \in i..Len(s) : s[k] \in Whitespace THEN (IF i > Len(s) THEN i ELSE Len(s) + 1)
       ELSE Min({k \in i..Len(s) : s[k] \notin Whitespace}) : i \in {from}})

\* The character an escape \e denotes; \b and \f are kept as named characters and
\* \uXXXX is not modelled (no backend text of the model holds one).
Unescape(e) ==
  CASE e = "\"" -> "\""
    [] e = "\\" -> "\\"
    [] e = "/" -> "/"
    [] e = "n" -> "\n"
    [] e = "t" -> "\t"
    [] e = "r" -> "\r"
    [] e = "b" -> "<BS>"
    [] e = "f" -> "<FF>"
    [] OTHER -> "<invalid>"

\* In a JSON string whose body starts at position i: whether the backslash at p
\* starts an escape (the run of backslashes from the body's start or the last other
\* character up to p is odd), and whether the character at p is the escaped one.
Escaper(s, i, p) ==
  /\ s[p] = "\\"
  /\ (p - Max({i - 1} \cup {k \in i..p : s[k] # "\\"})) % 2 = 1

Escaped(s, i, p) == p > i /\ Escaper(s, i, p - 1)

\* The characters of the string body s[i..q-1], escapes replaced.
StringChars(s, i, q) ==
  IF \A p \in i..(q - 1) : s[p] # "\\" THEN SubSeq(s, i, q - 1)
  ELSE Join([k \in 1..(q - i) |->
               IF Escaped(s, i, i + k - 1) THEN <<Unescape(s[i + k - 1])>>
               ELSE IF Escaper(s, i, i + k - 1) THEN <<>>
               ELSE <<s[i + k - 1]>>],
            1, q - i)

\* Whether the string body s[i..q-1] holds no raw control character and no
\* unknown escape (strict mode).
StringValid(s, i, q) ==
  \A p \in i..(q - 1) :
     IF Escaped(s, i, p) THEN Unescape(s[p]) # "<invalid>"
     ELSE s[p] \notin {"\n", "\t", "\r"}

\* The string whose body starts at position i (after the opening quote): it ends
\* at the first quote that is not escaped.
ParseStringBody(s, from) ==
  The({The({IF quotes = {} THEN ParseFail
            ELSE The({IF StringValid(s, i, q) THEN ParseOk(PyStr(StringChars(s, i, q)), q + 1)
                      ELSE ParseFail : q \in {Min(quotes)}})
            : quotes \in {{q \in i..Len(s) : s[q] = "\"" /\ ~Escaped(s, i, q)}}}) : i \in {from}})

DigitValue(c) == (CHOOSE k \in 1..10 : Digits[k] = c) - 1

\* The digits from position i on: their value and the position after them.
RECURSIVE ParseDigits(_, _, _)
ParseDigits(s, i, n) ==
  IF i <= Len(s) /\ s[i] \in Range(Digits)
    THEN ParseDigits(s, i + 1, 10 * n + DigitValue(s[i]))
    ELSE [n |-> n, pos |-> i]

\* The integer -?(0|[1-9][0-9]*) whose digits start at d.  Fractions and exponents
\* are not modelled: the parse fails on them (no backend text of the model holds one).
ParseInt(s, neg, d) ==
  IF d > Len(s) \/ s[d] \notin Range(Digits) THEN ParseFail
  ELSE The({IF r.pos <= Len(s) /\ s[r.pos] \in {".", "e", "E"} THEN ParseFail
            ELSE ParseOk(PyInt(IF neg THEN 0 - r.n ELSE r.n), r.pos)
            : r \in {IF s[d] = "0" THEN [n |-> 0, pos |-> d + 1] ELSE ParseDigits(s, d, 0)}})

ParseNumber(s, i) == IF s[i] = "-" THEN ParseInt(s, TRUE, i + 1) ELSE ParseInt(s, FALSE, i)

LiteralAt(s, i, p) == i + Len(p) - 1 <= Len(s) /\ SubSeq(s, i, i + Len(p) - 1) = p

RECURSIVE ParseValue(_, _)
RECURSIVE ParseItems(_, _, _)
RECURSIVE ParseMembers(_, _, _)

\* After an item r of an array: "," and the next item, or "]" at position j.
AfterItem(s, acc, r, j) ==
  IF j > Len(s) THEN ParseFail
  ELSE IF s[j] = "," THEN ParseItems(s, j + 1, Append(acc, r.val))
  ELSE IF s[j] = "]" THEN ParseOk(PyList(Append(acc, r.val)), j + 1)
  ELSE ParseFail

\* The items of an array from position i (a value is due), acc those read so far.
ParseItems(s, i, acc) ==
  The({IF ~r.ok THEN ParseFail
       ELSE The({AfterItem(s, items, r, j) : j \in {SkipWs(s, r.pos)}, items \in {acc}})
       : r \in {ParseValue(s, SkipWs(s, i))}})

\* After a member key: r of an object: "," and the next member, or "}" at position j.
AfterMember(s, acc, key, r, j) ==
  IF j > Len(s) THEN ParseFail
  ELSE IF s[j] = "," THEN ParseMembers(s, j + 1, Append(acc, <<key.val.v, r.val>>))
  ELSE IF s[j] = "}" THEN ParseOk(PyDict(Append(acc, <<key.val.v, r.val>>)), j + 1)
  ELSE ParseFail

\* After the key of a member: ":" at position c and the value.
AfterKey(s, acc, key, c) ==
  IF c > Len(s) \/ s[c] # ":" THEN ParseFail
  ELSE The({IF ~r.ok THEN ParseFail
            ELSE The({AfterMember(s, items, key, r, j) : j \in {SkipWs(s, r.pos)}, items \in {acc}})
            : r \in {ParseValue(s, SkipWs(s, c + 1))}})

\* The members of an object from position i (a key is due), acc those read so far.
ParseMembers(s, i, acc) ==
  The({IF k > Len(s) \/ s[k] # "\"" THEN ParseFail
       ELSE The({IF ~key.ok THEN ParseFail
                 ELSE The({AfterKey(s, items, key, c) : c \in {SkipWs(s, key.pos)}, items \in {acc}})
                 : key \in {ParseStringBody(s, k + 1)}})
       : k \in {SkipWs(s, i)}})

\* One JSON value at position i.
ParseValueAt(s, i) ==
  IF i > Len(s) THEN ParseFail
  ELSE IF s[i] = "\"" THEN ParseStringBody(s, i + 1)
  ELSE IF s[i] = "{"
    THEN The({IF j <= Len(s) /\ s[j] = "}" THEN ParseOk(PyDict(<<>>), j + 1)
              ELSE ParseMembers(s, j, <<>>) : j \in {SkipWs(s, i + 1)}})
  ELSE IF s[i] = "["
    THEN The({IF j <= Len(s) /\ s[j] = "]" THEN ParseOk(PyList(<<>>), j + 1)
              ELSE ParseItems(s, j, <<>>) : j \in {SkipWs(s, i + 1)}})
  ELSE IF LiteralAt(s, i, <<"n","u","l","l">>) THEN ParseOk(PyNone, i + 4)
  ELSE IF LiteralAt(s, i, <<"t","r","u","e">>) THEN ParseOk(PyBool(TRUE), i + 4)
  ELSE IF LiteralAt(s, i, <<"f","a","l","s","e">>) THEN ParseOk(PyBool(FALSE), i + 5)
  ELSE IF s[i] = "-" \/ s[i] \in Range(Digits) THEN ParseNumber(s, i)
  ELSE ParseFail

ParseValue(s, from) == The({ParseValueAt(s, i) : i \in {from}})

\* json.loads(text): one value and nothing but whitespace around it.
JsonLoads(text) ==
  The({The({IF r.ok /\ SkipWs(s, r.pos) > Len(s) THEN r ELSE ParseFail
            : r \in {ParseValue(s, SkipWs(s, 1))}}) : s \in {text}})

\* ---------------------------------------------------------- extract_json

\* re.search(r"\{.*\}", text, flags=re.DOTALL): from the first "{" to the last "}"
\* after it; None when there is no match.
BraceBlock(text) ==
  The({IF opens = {} \/ closes = {} \/ Max(closes) < Min(opens) THEN None
       ELSE SubSeq(text, Min(opens), Max(closes))
       : opens \in {{i \in 1..Len(text) : text[i] = "{"}},
         closes \in {{j \in 1..Len(text) : text[j] = "}"}}})

\* The position of the opening quote of the value when "reply"\s*:\s*" matches at
\* position p, else 0.
ReplyFieldOpen(text, p) ==
  IF ~LiteralAt(text, p, <<"\"","r","e","p","l","y","\"">>) THEN 0
  ELSE The({IF c > Len(text) \/ text[c] # ":" THEN 0
            ELSE The({IF o > Len(text) \/ text[o] # "\"" THEN 0 ELSE o : o \in {SkipWs(text, c + 1)}})
            : c \in {SkipWs(text, p + 7)}})

\* The quotes that can end (.+?)" for a value opened at o: at least one character
\* lies between.
ReplyFieldCloses(text, o) == {q \in (o + 2)..Len(text) : text[q] = "\""}

\* The opening quotes of the values of the matches of "reply"\s*:\s*"(.+?)".
ReplyFieldOpens(text) ==
  {o \in {ReplyFieldOpen(text, p) : p \in 1..Len(text)} : o # 0 /\ ReplyFieldCloses(text, o) # {}}

\* re.search(r'"reply"\s*:\s*"(.+?)"', text, flags=re.DOTALL): group 1 of the
\* leftmost match, '.+?' lazy; None when there is no match.
ReplyFieldGroup(text) ==
  The({IF opens = {} THEN None
       ELSE The({SubSeq(text, o + 1, Min(ReplyFieldCloses(text, o)) - 1) : o \in {Min(opens)}})
       : opens \in {ReplyFieldOpens(text)}})

\* The escapes replaced by the characters they denote: a variant of
\* ReplaceEscapes that C8 tells from it.
ReplaceEscapesDenoted(reply) ==
  Replace(Replace(Replace(reply, <<"\\","n">>, <<"\n">>), <<"\\","t">>, <<"\t">>), <<"\\","\"">>, <<"\"">>)

\* reply.replace("\\n", " ").replace("\\t", " ").replace('\\"', '"')
ReplaceEscapes(reply) ==
  Replace(Replace(Replace(reply, <<"\\","n">>, <<" ">>), <<"\\","t">>, <<" ">>), <<"\\","\"">>, <<"\"">>)

\* The third strategy of extract_json: the salvaged reply, "" when the field is
\* not found.
SalvageReply(text) ==
  The({Strip(ReplaceEscapes(IF g # None THEN Strip(g) ELSE <<>>)) : g \in {ReplyFieldGroup(text)}})

\* json.loads of the text matched by \{.*\}, stripped; a failed parse without a match.
LoadBlock(t) == The({IF b = None THEN ParseFail ELSE JsonLoads(Strip(b)) : b \in {BraceBlock(t)}})

\* extract_json's three strategies on the stripped text t: the strategy that
\* returns and the dict it returns.
Extract(t, whole, block) ==
  IF whole.ok /\ whole.val.t = "dict" THEN [strategy |-> 1, obj |-> whole.val]
  ELSE IF block.ok /\ block.val.t = "dict" THEN [strategy |-> 2, obj |-> block.val]
  ELSE [strategy |-> 3, obj |-> PyDict(<< <<<<"r","e","p","l","y">>, PyStr(SalvageReply(t))>>, <<<<"o","p","t","i","o","n","s">>, PyList(<<>>)>> >>)]

ExtractFrom(text) ==
  The({The({Extract(t, whole, block) : whole \in {JsonLoads(t)}, block \in {LoadBlock(t)}})
       : t \in {Strip(OrElse(text, <<>>))}})

\* Which of extract_json's three strategies returns for text.
ExtractStrategy(text) == ExtractFrom(text).strategy

extract_json(text) == ExtractFrom(text).obj

\* ----------------------------------------------------------- call_gemini

\* What the one HTTP exchange of call_gemini can end in: requests.post raising
\* (connection error, or the 45 s timeout), a status other than 200, a body
\* r.json() cannot decode, a decoded body without candidates[0].content.parts,
\* or a 200 whose parts' texts join to text.
BackendKinds == {"network_error", "http_error", "undecodable", "bad_shape", "ok"}

\* The exception classes the handler's try block can see.
ExceptionClasses == {"HTTPException", "RequestException", "ValueError", "KeyError", "AttributeError", "TypeError"}

Returned(text) == [raised |-> "none", text |-> text]

Raised(exc) == [raised |-> exc, text |-> <<>>]

\* call_gemini before the request is sent: the credential check.
MissingKeyRaises(key) == IF ~key THEN Raised("HTTPException") ELSE Returned(<<>>)

\* call_gemini from requests.post on, for the outcome of the exchange.
call_gemini(outcome) ==
  CASE outcome.kind = "network_error" -> Raised("RequestException")
    [] outcome.kind = "http_error" -> Raised("HTTPException")
    [] outcome.kind = "undecodable" -> Raised("ValueError")
    [] outcome.kind = "bad_shape" -> Raised("KeyError")
    [] outcome.kind = "ok" ->
         The({IF text = <<>> THEN Raised("HTTPException") ELSE Returned(text) : text \in {Strip(outcome.text)}})

\* ------------------------------------------------------------------ chat

\* bool(x)
Truthy(x) ==
  CASE x.t = "str" -> x.v # <<>>
    [] x.t = "int" -> x.v # 0
    [] x.t = "none" -> FALSE
    [] x.t = "bool" -> x.v = 1
    [] x.t = "list" -> x.v # <<>>
    [] x.t = "dict" -> x.v # <<>>

\* dict.get(key): the value of the last member named key, None without one.
DictGet(obj, key) ==
  The({IF hits = {} THEN PyNone ELSE obj.v[Max(hits)][2]
       : hits \in {{i \in 1..Len(obj.v) : obj.v[i][1] = key}}})

RECURSIVE NatToStr(_)
NatToStr(n) == IF n < 10 THEN <<Digits[n + 1]>> ELSE NatToStr(n \div 10) \o <<Digits[(n % 10) + 1]>>

\* str(x) for a str, an int, None or a bool (the items the model's backend texts hold).
Str(x) ==
  CASE x.t = "str" -> x.v
    [] x.t = "int" -> IF x.v < 0 THEN <<"-">> \o NatToStr(0 - x.v) ELSE NatToStr(x.v)
    [] x.t = "none" -> <<"N","o","n","e">>
    [] x.t = "bool" -> IF x.v = 1 THEN <<"T","r","u","e">> ELSE <<"F","a","l","s","e">>

\* What "for x in options" yields: a list's items, a str's characters, a dict's keys.
IterItems(x) ==
  CASE x.t = "list" -> x.v
    [] x.t = "str" -> [i \in 1..Len(x.v) |-> PyStr(<<x.v[i]>>)]
    [] x.t = "dict" -> [i \in 1..Len(x.v) |-> PyStr(x.v[i][1])]

Iterable(x) == x.t \in {"list", "str", "dict"}

\* [str(x).strip() for x in options if str(x).strip()]
CleanOptions(options) ==
  The({SelectSeq([i \in 1..Len(items) |-> Strip(Str(items[i]))], LAMBDA o : o # <<>>) : items \in {options}})

\* The phrase list without "go ahead and ask": a variant of bad_phrases that C3
\* tells from it.
bad_phrasesShort == {<<"h","a","p","p","y"," ","t","o"," ","h","e","l","p">>, <<"w","h","a","t"," ","w","o","u","l","d"," ","y","o","u"," ","l","i","k","e">>, <<"w","h","a","t"," ","a","r","e"," ","y","o","u","r"," ","q","u","e","s","t","i","o","n","s">>}

bad_phrases == {<<"h","a","p","p","y"," ","t","o"," ","h","e","l","p">>, <<"g","o"," ","a","h","e","a","d"," ","a","n","d"," ","a","s","k">>, <<"w","h","a","t"," ","w","o","u","l","d"," ","y","o","u"," ","l","i","k","e">>, <<"w","h","a","t"," ","a","r","e"," ","y","o","u","r"," ","q","u","e","s","t","i","o","n","s">>}

\* (not reply) or any(p in reply.lower() for p in bad_phrases)
Rejected(reply) == \E r \in {reply} : r = <<>> \/ \E p \in bad_phrases : Contains(Lower(r), p)

\* [x for x in seq if x not in present]
NotIn(seq, present) ==
  The({SelectSeq(seq, LAMBDA x : \A i \in 1..Len(have) : have[i] # x) : have \in {present}})

\* options + [x for x in fb["options"] if x not in options]
Merge(options, fbOptions) == The({have \o NotIn(fbOptions, have) : have \in {options}})

Ok200(reply, options) == [status |-> 200, reply |-> reply, options |-> options]

\* The response of a request whose exception FastAPI turns into an error (an
\* exception that leaves the handler).
Error500 == [status |-> 500, reply |-> <<>>, options |-> <<>>]

\* The response of a request pydantic refuses before the handler runs.
Error422 == [status |-> 422, reply |-> <<>>, options |-> <<>>]

NoResponse == [status |-> 0, reply |-> <<>>, options |-> <<>>]

\* return {"reply": fb["reply"], "options": fb["options"]}
FallbackResponse(msg, scenario, tone) ==
  The({Ok200(fb.reply, fb.options) : fb \in {make_fallback_drafts(msg, scenario, tone)}})

\* The USE_MOCK response.
MockResponse ==
  Ok200(<<"H","i",","," ","j","u","s","t"," ","f","o","l","l","o","w","i","n","g"," ","u","p"," ","o","n"," ","[","w","h","a","t"," ","I","'","m"," ","f","o","l","l","o","w","i","n","g"," ","u","p"," ","o","n","]","."," ","N","o"," ","r","u","s","h",EMDASH,"w","h","e","n","e","v","e","r"," ","y","o","u"," ","h","a","v","e"," ","a"," ","m","o","m","e","n","t",".">>,
        << <<"H","i",","," ","q","u","i","c","k"," ","f","o","l","l","o","w","-","u","p"," ","o","n"," ","[","w","h","a","t"," ","I","'","m"," ","f","o","l","l","o","w","i","n","g"," ","u","p"," ","o","n","]","."," ","W","h","e","n","e","v","e","r"," ","y","o","u","'","r","e"," ","f","r","e","e"," ","i","s"," ","t","o","t","a","l","l","y"," ","f","i","n","e",".">>,
           <<"H","i",","," ","c","h","e","c","k","i","n","g"," ","i","n"," ","a","b","o","u","t"," ","[","w","h","a","t"," ","I","'","m"," ","f","o","l","l","o","w","i","n","g"," ","u","p"," ","o","n","]","."," ","L","e","t"," ","m","e"," ","k","n","o","w"," ","w","h","e","n"," ","y","o","u"," ","g","e","t"," ","a"," ","c","h","a","n","c","e",".">>,
           <<"H","i",","," ","j","u","s","t"," ","w","a","n","t","e","d"," ","t","o"," ","f","o","l","l","o","w"," ","u","p"," ","o","n"," ","[","w","h","a","t"," ","I","'","m"," ","f","o","l","l","o","w","i","n","g"," ","u","p"," ","o","n","]","."," ","T","h","a","n","k","s","!">> >>)

\* The try block from the quality gate on, for the stripped reply and the cleaned
\* options of the backend's answer.
GateAndPad(msg, scenario, tone, reply, options) ==
  IF Rejected(reply) THEN FallbackResponse(msg, scenario, tone)
  ELSE IF Len(options) < 3
    THEN Ok200(reply, FirstThree(Merge(options, make_fallback_drafts(msg, scenario, tone).options)))
  ELSE Ok200(reply, options)

\* The try block after extract_json returned obj, r and o its "reply" and "options":
\* the response returned, or the exception raised (a reply of a type without
\* strip(): AttributeError; options that cannot be iterated: TypeError).
TryFields(msg, scenario, tone, r, o) ==
  IF Truthy(r) /\ r.t # "str" THEN [raised |-> "AttributeError", resp |-> NoResponse]
  ELSE IF Truthy(o) /\ ~Iterable(o) THEN [raised |-> "TypeError", resp |-> NoResponse]
  ELSE The({[raised |-> "none", resp |-> GateAndPad(msg, scenario, tone, reply, options)]
            : reply \in {Strip(IF Truthy(r) THEN r.v ELSE <<>>)},
              options \in {FirstThree(CleanOptions(IF Truthy(o) THEN IterItems(o) ELSE <<>>))}})

\* The try block after call_gemini returned raw.
TryBody(msg, scenario, tone, raw) ==
  The({The({TryFields(msg, scenario, tone, r, o) : r \in {DictGet(obj, <<"r","e","p","l","y">>)}, o \in {DictGet(obj, <<"o","p","t","i","o","n","s">>)}})
       : obj \in {extract_json(raw)}})

\* An except clause for the upstream errors only: a variant of Caught that C1
\* tells from it.
CaughtUpstream(exc) == exc \in {"HTTPException", "RequestException"}

\* except Exception: every class the try block can raise derives from Exception.
Caught(exc) == exc \in ExceptionClasses

\* The handler's try/except around what the try block did.
Handle(msg, scenario, tone, outcome) ==
  The({IF o.raised = "none" THEN o.resp
       ELSE IF Caught(o.raised) THEN FallbackResponse(msg, scenario, tone)
       ELSE Error500 : o \in {outcome}})

\* The try block from call_gemini's result on.
AfterCall(msg, scenario, tone, result) ==
  The({IF cg.raised # "none" THEN [raised |-> cg.raised, resp |-> NoResponse]
       ELSE TryBody(msg, scenario, tone, cg.text) : cg \in {result}})

\* -------------------------------------------------------------- requests

\* Mode = Literal["chat", "rewrite_shorter", "rewrite_politer", "rewrite_confident"]
Modes == {"chat", "rewrite_shorter", "rewrite_politer", "rewrite_confident"}

\* A mode field of type str, which accepts every value: a variant of ValidMode
\* that C6 tells from it.
ValidModeAny(mode) == TRUE

\* mode: Optional[Mode]: pydantic accepts a missing or null mode ("none") and the
\* four literals, and answers anything else with 422 before the handler runs.
ValidMode(mode) == mode \in Modes \cup {"none"}

\* The modes requests carry: the four literals, none, and one outside the Literal.
RequestModes == Modes \cup {"none", "summarize"}

\* The messages requests carry: one per rule of the two dispatches, the empty
\* message, one with surrounding whitespace and capitals, and one that both
\* starts with "follow up" and contains "ask ... about <topic>".
Messages ==
  { <<>>, <<"f","o","l","l","o","w"," ","u","p">>, <<" ","F","o","l","l","o","w","-","U","p"," ","p","l","e","a","s","e"," ">>, <<"s","a","y"," ","n","o">>, <<"c","l","a","r","i","f","y">>, <<"s","t","a","r","t"," ","f","r","i","e","n","d","l","y">>,
    <<"a","s","k"," ","a","b","o","u","t"," ","d","d","l">>, <<"a","s","k">>, <<"h","e","l","l","o"," ","t","h","e","r","e">>, <<"f","o","l","l","o","w"," ","u","p"," ","a","n","d"," ","a","s","k"," ","a","b","o","u","t"," ","t","h","e"," ","e","x","a","m","?">> }

\* The tones and scenarios requests carry while the backend answers.
Tones == {None, <<"P","o","l","i","t","e">>, <<"f","r","i","e","n","d","l","y">>}

Scenarios == {None, <<"p","r","o","f","e","s","s","o","r">>}

\* ------------------------------------------------------ the backend's text

\* The longest options list of a well-formed backend answer of the model (the
\* schema asks for at most 3; one more shows the handler's cut).
MaxModelOptions == 3

\* The options a well-formed backend answer draws from: one that no fallback
\* text equals and one equal to a fallback option of the default branch.
OptionPool == {<<"Y","e","s",".">>, <<"H","i",","," ","[","y","o","u","r"," ","m","e","s","s","a","g","e","]">>}

\* A JSON string literal for s.
JsonQuote(str) ==
  The({<<"\"">> \o Join([p \in 1..Len(s) |-> IF s[p] \in {"\"", "\\"} THEN <<"\\", s[p]>> ELSE <<s[p]>>], 1, Len(s)) \o <<"\"">>
       : s \in {str}})

JsonArrayBody(items) ==
  Join([k \in 1..Len(items) |-> JsonQuote(items[k]) \o (IF k < Len(items) THEN <<","," ">> ELSE <<>>)], 1, Len(items))

\* The text of a backend answer that follows the response schema.
SchemaText(reply, options) ==
  <<"{","\"","r","e","p","l","y","\"",":"," ">> \o JsonQuote(reply) \o <<","," ","\"","o","p","t","i","o","n","s","\"",":"," ","[">> \o JsonArrayBody(options) \o <<"]","}">>

OptionLists == UNION {[1..n -> OptionPool] : n \in 0..MaxModelOptions}

\* Answers that follow the schema, and answers that do not: JSON wrapped in
\* prose, fragments, assistant-voiced or blank replies, replies and options of
\* other types, blank and duplicate options, and no text at all.
BackendTexts ==
  {SchemaText(<<"S","u","r","e"," ","t","h","i","n","g",".">>, o) : o \in OptionLists} \cup
  { <<"S","u","r","e","!"," ","{","\"","r","e","p","l","y","\"",":"," ","\"","H","i"," ","t","h","e","r","e","\"",","," ","\"","o","p","t","i","o","n","s","\"",":"," ","[","\"","A","\"",",","\"","B","\"","]","}"," ","t","h","a","n","k","s">>,
    <<"r","e","p","l","y",":"," ","H","e","l","l","o","\n","b","r","o","k","e","n"," ","j","s","o","n"," ","\"","r","e","p","l","y","\"",":"," ","\"","H","e","l","l","o","\\","n","t","h","e","r","e","\""," ","t","a","i","l">>,
    <<"\"","r","e","p","l","y","\"",":"," ","\"","s","a","y"," ","\\","\"","h","i","\\","\""," ","n","o","w","\"">>,
    <<"\"","r","e","p","l","y","\""," ",":"," ","\"","t","a","b","\\","t","h","e","r","e","\"">>,
    <<"n","o"," ","j","s","o","n"," ","h","e","r","e">>,
    <<"[","\"","r","e","p","l","y","\"",","," ","\"","x","\"","]">>,
    <<"{","\"","r","e","p","l","y","\"",":"," ","\"","H","a","p","p","y"," ","t","o"," ","h","e","l","p","!"," ","W","h","a","t"," ","w","o","u","l","d"," ","y","o","u"," ","l","i","k","e"," ","t","o"," ","a","s","k","?","\"",","," ","\"","o","p","t","i","o","n","s","\"",":"," ","[","\"","X","\"","]","}">>,
    <<"{","\"","r","e","p","l","y","\"",":"," ","\"","G","O"," ","A","H","E","A","D"," ","a","n","d"," ","a","s","k","\"","}">>,
    <<"{","\"","r","e","p","l","y","\"",":"," ","\""," "," ","\"",","," ","\"","o","p","t","i","o","n","s","\"",":"," ","[","\"","X","\"","]","}">>,
    <<"{","\"","r","e","p","l","y","\"",":"," ","5",","," ","\"","o","p","t","i","o","n","s","\"",":"," ","[","\"","X","\"","]","}">>,
    <<"{","\"","r","e","p","l","y","\"",":"," ","\"","o","k","\"",","," ","\"","o","p","t","i","o","n","s","\"",":"," ","7","}">>,
    <<"{","\"","r","e","p","l","y","\"",":"," ","\""," ","o","k"," ","\"",","," ","\"","o","p","t","i","o","n","s","\"",":"," ","[","\"","A","\"",","," ","\"","A","\"",","," ","\""," ","\"",","," ","3",","," ","n","u","l","l","]","}">>,
    <<" "," "," ">> }

BackendOutcomes ==
  {[kind |-> k, text |-> <<>>] : k \in BackendKinds \ {"ok"}} \cup
  {[kind |-> "ok", text |-> t] : t \in BackendTexts}

\* --------------------------------------------------------- state machine

NoRequest == [message |-> <<>>, tone |-> None, scenario |-> None, mode |-> "none"]

NoUserText == [task |-> "none", normalized |-> [rule |-> "none", topic |-> <<>>], message |-> <<>>]

NoOutcome == [kind |-> "none", text |-> <<>>]

\* The handler's locals: msg, scenario, tone, mode of the request.
Msg(r) == Strip(OrElse(r.message, <<>>))

ScenarioOf(r) == OrElse(r.scenario, <<"g","e","n","e","r","a","l">>)

ToneOf(r) == OrElse(r.tone, <<"C","a","l","m">>)

ModeOf(r) == IF r.mode = "none" THEN "chat" ELSE r.mode

\* USE_MOCK is read once, when the module is imported.
Init ==
  /\ pc = "idle"
  /\ req = NoRequest
  /\ apiKey = TRUE
  /\ useMock \in BOOLEAN
  /\ userText = NoUserText
  /\ calls = 0
  /\ backend = NoOutcome
  /\ extracted = PyNone
  /\ resp = NoResponse

\* POST /chat up to requests.post: validation of the body, the mock, the two
\* instructions, and call_gemini's credential check (key: whether
\* GEMINI_API_KEY is set when the request arrives).
Receive(message, tone, scenario, mode, key) ==
  LET r == [message |-> message, tone |-> tone, scenario |-> scenario, mode |-> mode]
  IN /\ pc = "idle"
     /\ req' = r
     /\ apiKey' = key
     /\ UNCHANGED <<useMock, backend, extracted>>
     /\ IF ~ValidMode(mode)
          THEN /\ resp' = Error422
               /\ pc' = "done"
               /\ UNCHANGED <<userText, calls>>
        ELSE IF useMock
          THEN /\ resp' = MockResponse
               /\ pc' = "done"
               /\ UNCHANGED <<userText, calls>>
        ELSE /\ userText' = build_user_content(Msg(r), ModeOf(r), ScenarioOf(r), ToneOf(r))
             /\ IF MissingKeyRaises(key).raised # "none"
                  THEN /\ resp' = Handle(Msg(r), ScenarioOf(r), ToneOf(r),
                                         AfterCall(Msg(r), ScenarioOf(r), ToneOf(r), MissingKeyRaises(key)))
                       /\ pc' = "done"
                       /\ UNCHANGED calls
                  ELSE /\ calls' = calls + 1
                       /\ pc' = "awaiting"
                       /\ UNCHANGED resp

\* A handler that calls the backend again after a failed exchange: a variant of
\* BackendReturn that C5 tells from it.
BackendReturnRetry(outcome) ==
  /\ pc = "awaiting"
  /\ backend' = outcome
  /\ IF outcome.kind # "ok" /\ calls < 2
       THEN /\ calls' = calls + 1
            /\ pc' = "awaiting"
            /\ UNCHANGED <<req, apiKey, useMock, userText, extracted, resp>>
       ELSE /\ \E cg \in {call_gemini(outcome)} :
                 /\ extracted' = IF cg.raised = "none" THEN extract_json(cg.text) ELSE PyNone
                 /\ resp' = Handle(Msg(req), ScenarioOf(req), ToneOf(req), AfterCall(Msg(req), ScenarioOf(req), ToneOf(req), cg))
            /\ pc' = "done"
            /\ UNCHANGED <<req, apiKey, useMock, userText, calls>>

\* The exchange with the backend ends in outcome and the handler runs to its return.
BackendReturn(outcome) ==
  /\ pc = "awaiting"
  /\ backend' = outcome
  /\ \E cg \in {call_gemini(outcome)} :
       /\ extracted' = IF cg.raised = "none" THEN extract_json(cg.text) ELSE PyNone
       /\ resp' = Handle(Msg(req), ScenarioOf(req), ToneOf(req), AfterCall(Msg(req), ScenarioOf(req), ToneOf(req), cg))
  /\ pc' = "done"
  /\ UNCHANGED <<req, apiKey, useMock, userText, calls>>

\* The response is sent; the next request starts from nothing of this one.
NextRequest ==
  /\ pc = "done"
  /\ pc' = "idle"
  /\ req' = NoRequest
  /\ apiKey' = TRUE
  /\ userText' = NoUserText
  /\ calls' = 0
  /\ backend' = NoOutcome
  /\ extracted' = PyNone
  /\ resp' = NoResponse
  /\ UNCHANGED useMock

Next ==
  \/ \E message \in Messages, tone \in Tones, scenario \in Scenarios, mode \in RequestModes, key \in BOOLEAN :
       Receive(message, tone, scenario, mode, key)
  \/ \E outcome \in BackendOutcomes : BackendReturn(outcome)
  \/ NextRequest

Spec == Init /\ [][Next]_vars

\* ------------------------------------------- the service with its backend down

\* Requests in chat mode while every exchange with the backend fails: more
\* messages, one tone and one scenario per label, and one of each that names two
\* labels.
OfflineMessages ==
  Messages \cup { <<"f","o","l","l","o","w","u","p","?">>, <<"t","u","r","n"," ","d","o","w","n"," ","t","h","e"," ","i","n","v","i","t","e">>, <<"A","p","o","l","o","g","i","s","e"," ","a","n","d"," ","a","s","k"," ","a","b","o","u","t"," ","t","h","e"," ","g","r","a","d","e",".">>,
                  <<"d","e","c","l","i","n","e"," ","t","o"," ","a","s","k"," ","a","b","o","u","t"," ","i","t">>, <<"A","S","K"," ","m","e"," ","A","B","O","U","T"," "," ","T","h","e"," ","Q","u","i","z","!","?",".">>, <<"a","s","k"," ","a","b","o","u","t">>, <<"a","s","k","i","n","g"," ","f","o","r"," ","a"," ","f","r","i","e","n","d">> }

OfflineTones == {None, <<"P","o","l","i","t","e">>, <<"f","r","i","e","n","d","l","y">>, <<"D","i","r","e","c","t">>, <<" ","I","M","P","O","L","I","T","E"," ","a","n","d"," ","F","r","i","e","n","d","l","y"," ">>}

OfflineScenarios == {None, <<"p","r","o","f","e","s","s","o","r">>, <<"f","r","i","e","n","d">>, <<"a"," ","s","t","r","a","n","g","e","r">>, <<"m","y"," ","f","r","i","e","n","d"," ","t","h","e"," ","P","r","o","f","e","s","s","o","r">>}

OfflineOutcomes == {[kind |-> k, text |-> <<>>] : k \in BackendKinds \ {"ok"}}

InitOffline == Init /\ useMock = FALSE

NextOffline ==
  \/ \E message \in OfflineMessages, tone \in OfflineTones, scenario \in OfflineScenarios :
       Receive(message, tone, scenario, "chat", TRUE)
  \/ \E outcome \in OfflineOutcomes : BackendReturn(outcome)
  \/ NextRequest

SpecOffline == InitOffline /\ [][NextOffline]_vars


\* ============================================================ properties

\* s ends with suffix.
EndsWith(str, suffix) ==
  \E s \in {str}, p \in {suffix} : Len(p) <= Len(s) /\ SubSeq(s, Len(s) - Len(p) + 1, Len(s)) = p

\* The four values of Mode.
TheFourModes == {"chat", "rewrite_shorter", "rewrite_politer", "rewrite_confident"}

\* What the fallback generator returns for the request at hand.
RequestFallback == make_fallback_drafts(Msg(req), ScenarioOf(req), ToneOf(req))

\* The reply of the object extracted from the backend's text as the quality gate
\* reads it: the trimmed "reply" field, empty when the field is missing or null.
GateReplyOf(obj) ==
  LET r == DictGet(obj, <<"r","e","p","l","y">>) IN IF r.t = "str" THEN Strip(r.v) ELSE <<>>

\* The extracted object has a reply the gate can read: a string, or none.
GateReads(obj) == obj.t = "dict" /\ DictGet(obj, <<"r","e","p","l","y">>).t \in {"str", "none"}

GatePhrases == {<<"h","a","p","p","y"," ","t","o"," ","h","e","l","p">>, <<"g","o"," ","a","h","e","a","d"," ","a","n","d"," ","a","s","k">>, <<"w","h","a","t"," ","w","o","u","l","d"," ","y","o","u"," ","l","i","k","e">>, <<"w","h","a","t"," ","a","r","e"," ","y","o","u","r"," ","q","u","e","s","t","i","o","n","s">>}

\* The gate's criterion: empty after trimming, or one of the phrases in any case.
GateRejects(obj) ==
  GateReads(obj) /\ (GateReplyOf(obj) = <<>> \/ \E p \in GatePhrases : Contains(Lower(GateReplyOf(obj)), p))

\* ---------------------------------------------------------------------- C1

\* C1: every response to a request with one of the four modes (or none), for every
\* message, tone and scenario and every outcome of the backend exchange, is a
\* DraftResult with status 200, a non-empty reply and at most 3 options, each
\* non-empty; no exception leaves the handler.
C1_WellFormedDraftResult ==
  (pc = "done" /\ req.mode \in TheFourModes \cup {"none"}) =>
    /\ resp.status = 200
    /\ resp.reply # <<>>
    /\ Len(resp.options) <= 3
    /\ \A i \in 1..Len(resp.options) : resp.options[i] # <<>>

\* An empty message whose backend body cannot be decoded is answered with drafts.
C1_EmptyMessageUndecodableBody ==
  /\ pc = "done"
  /\ req.message = <<>>
  /\ req.tone = None
  /\ req.scenario = None
  /\ backend.kind = "undecodable"
  /\ resp.status = 200
  /\ resp.reply = <<"H","i",","," ","[","y","o","u","r"," ","m","e","s","s","a","g","e","]">>

\* ---------------------------------------------------------------------- C2

\* C2: a request that arrives while GEMINI_API_KEY is unset and the mock is off is
\* answered with an error (status 500), not with the fallback generator's drafts.
C2_MissingKeySurfaced ==
  (pc = "done" /\ ~apiKey /\ ~useMock /\ req.mode \in TheFourModes \cup {"none"}) =>
    /\ resp.status = 500
    /\ resp.reply # RequestFallback.reply

\* ---------------------------------------------------------------------- C3

\* C3: when the reply extracted from the backend's text is empty after trimming,
\* or contains one of the four phrases in any case, the response is the fallback
\* generator's output for (message, scenario, tone): its reply and its options,
\* nothing of the backend's answer.
C3_GateReturnsFallback ==
  (pc = "done" /\ backend.kind = "ok" /\ GateRejects(extracted)) =>
    resp = [status |-> 200, reply |-> RequestFallback.reply, options |-> RequestFallback.options]

\* The assistant-voiced reply with option "X" is replaced by the fallback's drafts.
C3_AssistantVoiceReplaced ==
  /\ pc = "done"
  /\ backend.text = <<"{","\"","r","e","p","l","y","\"",":"," ","\"","H","a","p","p","y"," ","t","o"," ","h","e","l","p","!"," ","W","h","a","t"," ","w","o","u","l","d"," ","y","o","u"," ","l","i","k","e"," ","t","o"," ","a","s","k","?","\"",","," ","\"","o","p","t","i","o","n","s","\"",":"," ","[","\"","X","\"","]","}">>
  /\ req.message = <<"h","e","l","l","o"," ","t","h","e","r","e">>
  /\ req.scenario = <<"p","r","o","f","e","s","s","o","r">>
  /\ req.tone = None
  /\ resp.reply = <<"H","e","l","l","o"," ","P","r","o","f","e","s","s","o","r",","," ","[","y","o","u","r"," ","m","e","s","s","a","g","e","]">>
  /\ \A i \in 1..Len(resp.options) : resp.options[i] # <<"X">>

\* ---------------------------------------------------------------------- C4

\* C4: in every response the options hold no two equal strings.
C4_NoDuplicateOptions ==
  pc = "done" =>
    \A i, j \in 1..Len(resp.options) : i < j => resp.options[i] # resp.options[j]

\* ---------------------------------------------------------------------- C5

\* C5: a request calls the backend at most once: a step that counts a call is the
\* request's first, and the step in which the exchange ends is the handler's
\* return, without another call; when the exchange failed or the gate rejected
\* the reply, what it returns is the fallback generator's output.
C5_SingleAttempt ==
  [][ /\ calls' <= 1
      /\ calls' > calls => (pc = "idle" /\ calls = 0)
      /\ pc = "awaiting" =>
           /\ pc' = "done"
           /\ calls' = calls
           /\ (backend'.kind # "ok" \/ Strip(backend'.text) = <<>> \/ GateRejects(extracted')) =>
                resp' = [status |-> 200,
                         reply |-> make_fallback_drafts(Msg(req'), ScenarioOf(req'), ToneOf(req')).reply,
                         options |-> make_fallback_drafts(Msg(req'), ScenarioOf(req'), ToneOf(req')).options] ]_vars

\* A request whose one call got a status other than 200 is answered by the fallback.
C5_OneCallThenFallback ==
  /\ pc = "done"
  /\ calls = 1
  /\ backend.kind = "http_error"
  /\ req.message = <<"s","a","y"," ","n","o">>
  /\ resp.reply = RequestFallback.reply
  /\ Contains(resp.reply, <<"[","r","e","q","u","e","s","t","]">>)

\* ---------------------------------------------------------------------- C6

\* C6 as stated: a request whose mode is none of the four is answered with a
\* DraftResult, its instruction built by the generic rewrite branch.
C6_InvalidModeProcessed ==
  (pc = "done" /\ req.mode \notin TheFourModes \cup {"none"}) =>
    /\ resp.status = 200
    /\ resp.reply # <<>>
    /\ ~useMock => userText.task = "rewrite_generic"

\* C6: a request whose mode is a value other than the four is refused with status
\* 422 before the handler runs: no instruction is built, no backend call is made
\* and no draft is returned; a request without a mode is handled as chat; and no
\* request reaches the generic rewrite branch of build_user_content.
C6_InvalidModeRefused ==
  /\ (pc = "done" /\ req.mode \notin TheFourModes \cup {"none"}) =>
       /\ resp = [status |-> 422, reply |-> <<>>, options |-> <<>>]
       /\ calls = 0
       /\ userText.task = "none"
  /\ (pc # "idle" /\ req.mode = "none" /\ ~useMock) =>
       userText.task \in {"send_intention", "reply_to_received"}
  /\ userText.task # "rewrite_generic"

\* A request with mode "summarize" has been refused.
C6_SummarizeRefused ==
  /\ pc = "done"
  /\ req.mode = "summarize"
  /\ req.message = <<"f","o","l","l","o","w"," ","u","p">>
  /\ resp.status = 422
  /\ calls = 0

\* ---------------------------------------------------------------------- C7

C7_Greeting(label) ==
  CASE label = "talking to a professor" -> <<"H","e","l","l","o"," ","P","r","o","f","e","s","s","o","r",","," ">>
    [] label = "messaging a friend" -> <<"H","e","y",","," ">>
    [] OTHER -> <<"H","i",","," ">>

C7_Suffix(label) ==
  CASE label = "Polite" -> <<" ","T","h","a","n","k"," ","y","o","u","!">>
    [] label = "Friendly" -> <<" ","T","h","a","n","k","s","!">>
    [] OTHER -> <<>>

\* "[", at least one character, "]".
C7_HasPlaceholder(reply) ==
  \E i, j \in 1..Len(reply) : i + 1 < j /\ reply[i] = "[" /\ reply[j] = "]"

\* C7: with the backend down, the reply starts with the greeting of the scenario's
\* label, ends with the suffix of the tone's label (Direct and Calm add none),
\* and holds a bracketed placeholder; for "follow up", Polite, professor it starts
\* with "Hello Professor, ", holds "[what I'm following up on]" and ends with
\* " Thank you!".
C7_FallbackReplyFormat ==
  pc = "done" =>
    /\ resp.status = 200
    /\ StartsWith(resp.reply, C7_Greeting(scenario_label(ScenarioOf(req))))
    /\ EndsWith(resp.reply, C7_Suffix(tone_label(ToneOf(req))))
    /\ tone_label(ToneOf(req)) \in {"Direct", "Calm"} =>
         ~EndsWith(resp.reply, <<" ","T","h","a","n","k"," ","y","o","u","!">>) /\ ~EndsWith(resp.reply, <<" ","T","h","a","n","k","s","!">>)
    /\ C7_HasPlaceholder(resp.reply)
    /\ (req.message = <<"f","o","l","l","o","w"," ","u","p">> /\ req.tone = <<"P","o","l","i","t","e">> /\ req.scenario = <<"p","r","o","f","e","s","s","o","r">>) =>
         /\ StartsWith(resp.reply, <<"H","e","l","l","o"," ","P","r","o","f","e","s","s","o","r",","," ">>)
         /\ Contains(resp.reply, <<"[","w","h","a","t"," ","I","'","m"," ","f","o","l","l","o","w","i","n","g"," ","u","p"," ","o","n","]">>)
         /\ EndsWith(resp.reply, <<" ","T","h","a","n","k"," ","y","o","u","!">>)

\* "follow up", Polite, professor, and the connection to the backend failed.
C7_FollowUpPoliteProfessor ==
  /\ pc = "done"
  /\ backend.kind = "network_error"
  /\ req.message = <<"f","o","l","l","o","w"," ","u","p">>
  /\ req.tone = <<"P","o","l","i","t","e">>
  /\ req.scenario = <<"p","r","o","f","e","s","s","o","r">>
  /\ resp.reply = <<"H","e","l","l","o"," ","P","r","o","f","e","s","s","o","r",","," ","j","u","s","t"," ","f","o","l","l","o","w","i","n","g"," ","u","p"," ","o","n"," ","[","w","h","a","t"," ","I","'","m"," ","f","o","l","l","o","w","i","n","g"," ","u","p"," ","o","n","]","."," ","N","o"," ","r","u","s","h",EMDASH,"w","h","e","n","e","v","e","r"," ","y","o","u"," ","h","a","v","e"," ","a"," ","m","o","m","e","n","t","."," ","T","h","a","n","k"," ","y","o","u","!">>

\* ---------------------------------------------------------------------- C8

\* s with \n and \t each read as one space and \" as a quote, left to right.
RECURSIVE C8_Flatten(_)
C8_Flatten(s) ==
  IF s = <<>> THEN <<>>
  ELSE IF Len(s) >= 2 /\ s[1] = "\\" /\ s[2] \in {"n", "t"} THEN <<" ">> \o C8_Flatten(SubSeq(s, 3, Len(s)))
  ELSE IF Len(s) >= 2 /\ s[1] = "\\" /\ s[2] = "\"" THEN <<"\"">> \o C8_Flatten(SubSeq(s, 3, Len(s)))
  ELSE <<s[1]>> \o C8_Flatten(Tail(s))

\* s with \n, \t and \" read as the characters they denote, left to right.
RECURSIVE C8_Denoted(_)
C8_Denoted(s) ==
  IF s = <<>> THEN <<>>
  ELSE IF Len(s) >= 2 /\ s[1] = "\\" /\ s[2] = "n" THEN <<"\n">> \o C8_Denoted(SubSeq(s, 3, Len(s)))
  ELSE IF Len(s) >= 2 /\ s[1] = "\\" /\ s[2] = "t" THEN <<"\t">> \o C8_Denoted(SubSeq(s, 3, Len(s)))
  ELSE IF Len(s) >= 2 /\ s[1] = "\\" /\ s[2] = "\"" THEN <<"\"">> \o C8_Denoted(SubSeq(s, 3, Len(s)))
  ELSE <<s[1]>> \o C8_Denoted(Tail(s))

\* The quotes after the opening quote o of a "reply" field of t: every quote with
\* a character between, and the quotes no backslash precedes.
C8_Quotes(t, o) == {q \in (o + 2)..Len(t) : t[q] = "\""}

C8_UnescapedQuotes(t, o) == {q \in (o + 1)..Len(t) : t[q] = "\"" /\ t[q - 1] # "\\"}

\* The opening quote of the first "reply" field of t that some quote closes (0
\* without one).
C8_Field(t) ==
  LET opens == {o \in {ReplyFieldOpen(t, p) : p \in 1..Len(t)} : o # 0 /\ C8_Quotes(t, o) # {}}
  IN IF opens = {} THEN 0 ELSE Min(opens)

\* The text reaches the third strategy and extract_json returned.
C8_Salvaged ==
  /\ pc = "done"
  /\ backend.kind = "ok"
  /\ extracted.t = "dict"
  /\ ExtractStrategy(backend.text) = 3

\* C8 as stated: the salvaged reply is the field up to the next unescaped quote
\* with \n, \t and \" replaced by the characters they denote, the options empty.
C8_SalvageUnescapes ==
  C8_Salvaged =>
    LET t == Strip(backend.text)
        o == C8_Field(t)
        claimed == IF o = 0 \/ C8_UnescapedQuotes(t, o) = {} THEN <<>>
                   ELSE Strip(C8_Denoted(SubSeq(t, o + 1, Min(C8_UnescapedQuotes(t, o)) - 1)))
    IN extracted = PyDict(<< <<<<"r","e","p","l","y">>, PyStr(claimed)>>, <<<<"o","p","t","i","o","n","s">>, PyList(<<>>)>> >>)

\* C8: the salvaged reply is the "reply" field from its opening quote up to the
\* next quote that follows at least one character, whether a backslash precedes
\* that quote or not, trimmed, with \n and \t each replaced by one space (and \"
\* by a quote), trimmed again; the options are empty.  The fragment
\* "reply": "Hello\nthere" yields "Hello there", without a newline, and
\* "reply": "say \"hi\" now" yields "say \".
C8_SalvageFlattens ==
  C8_Salvaged =>
    LET t == Strip(backend.text)
        o == C8_Field(t)
        expected == IF o = 0 THEN <<>>
                    ELSE Strip(C8_Flatten(Strip(SubSeq(t, o + 1, Min(C8_Quotes(t, o)) - 1))))
    IN /\ extracted = PyDict(<< <<<<"r","e","p","l","y">>, PyStr(expected)>>, <<<<"o","p","t","i","o","n","s">>, PyList(<<>>)>> >>)
       /\ backend.text = <<"r","e","p","l","y",":"," ","H","e","l","l","o","\n","b","r","o","k","e","n"," ","j","s","o","n"," ","\"","r","e","p","l","y","\"",":"," ","\"","H","e","l","l","o","\\","n","t","h","e","r","e","\""," ","t","a","i","l">> =>
            /\ expected = <<"H","e","l","l","o"," ","t","h","e","r","e">>
            /\ resp.reply = <<"H","e","l","l","o"," ","t","h","e","r","e">>
       /\ backend.text = <<"\"","r","e","p","l","y","\"",":"," ","\"","s","a","y"," ","\\","\"","h","i","\\","\""," ","n","o","w","\"">> => expected = <<"s","a","y"," ","\\">>

\* The fragment "reply": "Hello\nthere" has been salvaged.
C8_HelloThereSalvaged ==
  /\ pc = "done"
  /\ backend.text = <<"r","e","p","l","y",":"," ","H","e","l","l","o","\n","b","r","o","k","e","n"," ","j","s","o","n"," ","\"","r","e","p","l","y","\"",":"," ","\"","H","e","l","l","o","\\","n","t","h","e","r","e","\""," ","t","a","i","l">>
  /\ ExtractStrategy(backend.text) = 3
  /\ DictGet(extracted, <<"r","e","p","l","y">>) = PyStr(<<"H","e","l","l","o"," ","t","h","e","r","e">>)
  /\ DictGet(extracted, <<"o","p","t","i","o","n","s">>) = PyList(<<>>)
  /\ resp.reply = <<"H","e","l","l","o"," ","t","h","e","r","e">>

\* ---------------------------------------------------------------------- C9

\* The non-empty options of the extracted object, in their order.
C9_ModelOptions(obj) ==
  LET o == DictGet(obj, <<"o","p","t","i","o","n","s">>) IN IF o.t = "list" THEN CleanOptions(o.v) ELSE <<>>

\* have, then the items of more not equal to one already there, until 3.
RECURSIVE C9_Append(_, _)
C9_Append(have, more) ==
  IF more = <<>> \/ Len(have) >= 3 THEN have
  ELSE IF \E i \in 1..Len(have) : have[i] = Head(more) THEN C9_Append(have, Tail(more))
  ELSE C9_Append(Append(have, Head(more)), Tail(more))

\* C9: when the backend's reply is accepted, the response keeps it; with fewer
\* than 3 non-empty options the response's options are the backend's, then the
\* fallback's in their order, skipping each one equal to an option already
\* there, until there are 3 or the fallback's are used up; with 3 or more they
\* are the backend's first 3.
C9_PaddingSkipsPresent ==
  (/\ pc = "done"
   /\ backend.kind = "ok"
   /\ GateReads(extracted)
   /\ ~GateRejects(extracted)
   /\ DictGet(extracted, <<"o","p","t","i","o","n","s">>).t \in {"list", "none"}) =>
    /\ resp.reply = GateReplyOf(extracted)
    /\ resp.options =
         IF Len(C9_ModelOptions(extracted)) < 3
           THEN C9_Append(C9_ModelOptions(extracted), RequestFallback.options)
         ELSE SubSeq(C9_ModelOptions(extracted), 1, 3)

\* --------------------------------------------------------------------- C10

C10_Keywords ==
  {<<"f","o","l","l","o","w"," ","u","p">>, <<"f","o","l","l","o","w","-","u","p">>, <<"f","o","l","l","o","w","u","p">>, <<"s","a","y"," ","n","o">>, <<"d","e","c","l","i","n","e">>, <<"t","u","r","n"," ","d","o","w","n">>,
   <<"a","p","o","l","o","g","i","s","e">>, <<"a","p","o","l","o","g","i","z","e">>, <<"c","l","a","r","i","f","y">>, <<"s","t","a","r","t"," ","f","r","i","e","n","d","l","y">>}

\* The branch of the fallback generator a reply comes from, by its placeholder.
C10_BranchOf(reply) ==
  IF Contains(reply, <<"[","w","h","a","t"," ","I","'","m"," ","f","o","l","l","o","w","i","n","g"," ","u","p"," ","o","n","]">>) THEN "follow_up"
  ELSE IF Contains(reply, <<"[","r","e","q","u","e","s","t","]">>) THEN "decline"
  ELSE IF Contains(reply, <<"[","c","o","n","f","u","s","i","n","g"," ","p","a","r","t","]">>) THEN "apologize"
  ELSE IF Contains(reply, <<"[","m","a","i","n"," ","p","o","i","n","t","]">>) THEN "start_friendly"
  ELSE IF Contains(reply, <<"q","u","e","s","t","i","o","n"," ","a","b","o","u","t">>) /\ Contains(reply, <<"[","y","o","u","r"," ","q","u","e","s","t","i","o","n","]">>) THEN "ask_about"
  ELSE IF Contains(reply, <<"[","y","o","u","r"," ","q","u","e","s","t","i","o","n","]">>) THEN "ask"
  ELSE "default"

\* The fallback's generic "ask" branch has no rule of its own in the normalizer,
\* whose default takes those messages.
C10_InNormalizerTerms(branch) == IF branch = "ask" THEN "default" ELSE branch

\* An intention was normalized and, the backend down, answered by the fallback.
C10_BothClassified == pc = "done" /\ userText.task = "send_intention"

\* C10 as stated: the fallback's reply comes from the branch of the rule the
\* normalizer chose for the message.
C10_SameBranch ==
  C10_BothClassified => C10_InNormalizerTerms(C10_BranchOf(resp.reply)) = userText.normalized.rule

\* C10: the two dispatches test the same rules in different orders: the
\* normalizer tests "ask ... about <topic>" first, the fallback generator tests
\* it after the four keyword rules.  They choose the same branch (the fallback's
\* generic "ask" counted with the default) exactly for the messages that do not
\* both start with a keyword and match "ask ... about <topic>"; for a message
\* that does both, the normalizer chooses ask-about and the fallback generator
\* the keyword's branch.
C10_SameBranchUnlessKeywordAndAskAbout ==
  C10_BothClassified =>
    LET n == userText.normalized.rule
        f == C10_BranchOf(resp.reply)
        keyword == StartsWithAny(Lower(Msg(req)), C10_Keywords)
    IN /\ (keyword /\ n = "ask_about") =>
            f \in {"follow_up", "decline", "apologize", "start_friendly"}
       /\ ~(keyword /\ n = "ask_about") => C10_InNormalizerTerms(f) = n
       /\ f = "ask" <=> (n = "default" /\ StartsWith(Lower(Msg(req)), <<"a","s","k">>))

\* A message that starts with "follow up" and asks about the exam: an ask-about
\* instruction, a follow-up draft.
C10_FollowUpAndAskAbout ==
  /\ pc = "done"
  /\ req.message = <<"f","o","l","l","o","w"," ","u","p"," ","a","n","d"," ","a","s","k"," ","a","b","o","u","t"," ","t","h","e"," ","e","x","a","m","?">>
  /\ userText.normalized = [rule |-> "ask_about", topic |-> <<"t","h","e"," ","e","x","a","m">>]
  /\ Contains(resp.reply, <<"[","w","h","a","t"," ","I","'","m"," ","f","o","l","l","o","w","i","n","g"," ","u","p"," ","o","n","]">>)
  /\ ~Contains(resp.reply, <<"t","h","e"," ","e","x","a","m">>)

====
